---------------------------- MODULE Spec2Model ----------------------------
(***************************************************************************)
(* A model of tools/stock_analyzer.py: the StockAnalyzer object (symbol,  *)
(* market, provider symbol, price data, info), its constructor with the   *)
(* two provider fetches, and its six public methods.                      *)
(*                                                                         *)
(* Number representation.  The program computes in float64; the model     *)
(* computes in integers:                                                   *)
(*   - a close price is an integer number of price units, UnitsPerCent    *)
(*     units to the cent, so rounding a price to 2 decimals is a real     *)
(*     operation (and never a tie);                                        *)
(*   - an info / fundamentals number is an integer number of              *)
(*     ten-thousandths, so round(value, 3) is a real operation;           *)
(*   - a daily return is a fixed-point number with ReturnScale units to   *)
(*     1.0, rounded to the nearest unit;                                   *)
(*   - every reported (rounded) figure is an integer number of its last   *)
(*     decimal: cents, hundredths of a percent, tenths of an RSI point.   *)
(* NaN is the explicit value NaN.  Python's round() is modelled as        *)
(* round-half-to-even on the exact value.                                  *)
(***************************************************************************)
EXTENDS Integers, Sequences, FiniteSets, TLC

\* ------------------------------------------------------------------ bounds
\* longest price series of the exhaustive short family
MaxLen == 3
\* bars of the warm-up prefix put before a short series (RSI window family)
PadLen == 12
\* bars of the end-to-end rising series
E2ELen == 300
\* number of zig-zag variants of the end-to-end rising series
E2EVariants == 1

\* ------------------------------------------------------------ representation
UnitsPerCent == 3
ReturnScale == 10000
InfoScale == 10000
\* sqrt(252), in units of 1/10000
Sqrt252 == 158745

\* a float: a number v (in the unit of its context) or NaN
Num(x) == [nan |-> FALSE, v |-> x]

NaN == [nan |-> TRUE, v |-> 0]

\* float comparisons: every comparison with NaN is False
Lt(a, b) == ~a.nan /\ ~b.nan /\ a.v < b.v

Gt(a, b) == Lt(b, a)

\* a quotient n/d kept exact (d > 0), or NaN
Rat(n, d) == [nan |-> FALSE, n |-> n, d |-> d]

RatNaN == [nan |-> TRUE, n |-> 0, d |-> 1]

RatLt(a, b) == ~a.nan /\ ~b.nan /\ a.n * b.d < b.n * a.d

\* dict.get(key, default)
Get(m, key, default) == IF key \in DOMAIN m THEN m[key] ELSE default

\* ----------------------------------------------------------------- arithmetic
Abs(x) == IF x < 0 THEN -x ELSE x

Max2(a, b) == IF a >= b THEN a ELSE b

\* round(n/d) to the nearest integer, ties to even (d > 0)
RoundHalfEven(n, d) ==
    LET q == n \div d
        r == n % d
    IN  IF 2 * r < d THEN q
        ELSE IF 2 * r > d THEN q + 1
        ELSE IF q % 2 = 0 THEN q ELSE q + 1

\* <<q, r>> with a * b = q * c + r and 0 <= r < c, for 0 <= a < c, b >= 0,
\* computed by doubling so that no intermediate exceeds 2 * c + a
RECURSIVE MulDivRem(_, _, _)
MulDivRem(a, b, c) ==
    IF b = 0 THEN <<0, 0>>
    ELSE LET h  == MulDivRem(a, b \div 2, c)
             r2 == 2 * h[2] + (IF b % 2 = 1 THEN a ELSE 0)
         IN  <<2 * h[1] + (r2 \div c), r2 % c>>

\* floor(a * b / c) for a, b >= 0 and c > 0
MulDivFloor(a, b, c) ==
    (a \div c) * b + MulDivRem(a % c, b, c)[1]

\* a * b / c rounded to the nearest integer (ties away from zero), c > 0, b >= 0
MulDivRound(a, b, c) ==
    LET m  == Abs(a)
        qr == MulDivRem(m % c, b, c)
        q  == (m \div c) * b + qr[1] + (IF 2 * qr[2] >= c THEN 1 ELSE 0)
    IN  IF a < 0 THEN -q ELSE q

\* floor(sqrt(n)), n >= 0, by bisection on lo <= sqrt(n) < hi
RECURSIVE SqrtBetween(_, _, _)
SqrtBetween(n, lo, hi) ==
    IF hi - lo <= 1 THEN lo
    ELSE LET mid == (lo + hi) \div 2
         IN  IF mid * mid <= n THEN SqrtBetween(n, mid, hi)
             ELSE SqrtBetween(n, lo, mid)

SqrtFloor(n) == SqrtBetween(n, 0, 46341)

\* sqrt(n / 4) rounded to the nearest integer
HalfSqrtRound(n) == (SqrtFloor(n) + 1) \div 2

\* the sum of s[lo .. hi], by halving (the recursion stays shallow)
RECURSIVE SumRange(_, _, _)
SumRange(s, lo, hi) ==
    IF lo > hi THEN 0
    ELSE IF lo = hi THEN s[lo]
    ELSE LET mid == (lo + hi) \div 2
         IN  SumRange(s, lo, mid) + SumRange(s, mid + 1, hi)

SumSeq(s) == SumRange(s, 1, Len(s))

\* the maximum of s[lo .. hi], lo <= hi
RECURSIVE MaxRange(_, _, _)
MaxRange(s, lo, hi) ==
    IF lo = hi THEN s[lo]
    ELSE LET mid == (lo + hi) \div 2
         IN  Max2(MaxRange(s, lo, mid), MaxRange(s, mid + 1, hi))

\* the last n elements of s (n <= Len(s))
LastN(s, n) == SubSeq(s, Len(s) - n + 1, Len(s))

\* ------------------------------------------------------------------- strings
\* a string is a sequence of one-character strings
UpperChar(c) ==
    CASE c = "a" -> "A" [] c = "c" -> "C" [] c = "h" -> "H" [] c = "k" -> "K"
      [] c = "l" -> "L" [] c = "n" -> "N" [] c = "p" -> "P" [] c = "s" -> "S"
      [] c = "u" -> "U" [] OTHER -> c

\* str.upper()
Upper(s) == [i \in DOMAIN s |-> UpperChar(s[i])]

STR_HK == <<"H", "K">>
STR_CN == <<"C", "N">>
STR_US == <<"U", "S">>
SUFFIX_HK == <<".", "H", "K">>
SUFFIX_SS == <<".", "S", "S">>

\* ------------------------------------------------------------ series helpers
\* sample mean of s, rounded to the unit of s
Mean(s) == RoundHalfEven(SumSeq(s), Len(s))

\* the sum of the squared deviations of s[lo .. hi] from m, by halving
RECURSIVE SumSqDevRange(_, _, _, _)
SumSqDevRange(s, m, lo, hi) ==
    IF lo > hi THEN 0
    ELSE IF lo = hi THEN (s[lo] - m) * (s[lo] - m)
    ELSE LET mid == (lo + hi) \div 2
         IN  SumSqDevRange(s, m, lo, mid) + SumSqDevRange(s, m, mid + 1, hi)

SumSqDev(s, m) == SumSqDevRange(s, m, 1, Len(s))

\* Series.std(): the sample (ddof = 1) standard deviation, rounded to the unit
\* of s; NaN for fewer than 2 values
Std(s) ==
    IF Len(s) < 2 THEN NaN
    ELSE Num(HalfSqrtRound(MulDivFloor(SumSqDev(s, Mean(s)), 4, Len(s) - 1)))

\* close_prices.pct_change().dropna(): fixed point, ReturnScale units to 1.0
pct_change(close) ==
    [i \in 1 .. (Len(close) - 1) |->
        RoundHalfEven((close[i + 1] - close[i]) * ReturnScale, close[i])]

\* close_prices.diff(): the first delta is NaN
diff(close) ==
    [i \in 1 .. Len(close) |-> IF i = 1 THEN NaN ELSE Num(close[i] - close[i - 1])]

\* RollingMeanLast with min_periods = 1: the mean of the bars there are
RollingMeanLastMutant(s, window) ==
    IF Len(s) = 0 THEN RatNaN
    ELSE IF Len(s) < window THEN Rat(SumSeq(s), Len(s))
    ELSE Rat(SumSeq(LastN(s, window)), window)

\* Series.rolling(window).mean().iloc[-1] as the exact quotient sum/window;
\* NaN while fewer than window values exist
RollingMeanLast(s, window) ==
    IF Len(s) < window THEN RatNaN ELSE Rat(SumSeq(LastN(s, window)), window)

\* Series.rolling(window).std().iloc[-1]
RollingStdLast(s, window) ==
    IF Len(s) < window THEN NaN ELSE Std(LastN(s, window))

\* ---------------------------------------------------------- calculate_returns
\* (1 + daily_returns).cumprod() telescopes to close[i+1] / close[1]; the running
\* maximum therefore ranges over close[2..i+1] and never includes close[1].
\* drawdown.min() as the exact quotient (close - running_max) / running_max
RECURSIVE DrawdownMin(_, _, _, _)
DrawdownMin(close, lo, hi, max_before) ==
    IF lo = hi
    THEN LET running_max == Max2(max_before, close[lo])
         IN  Rat(close[lo] - running_max, running_max)
    ELSE LET mid   == (lo + hi) \div 2
             left  == DrawdownMin(close, lo, mid, max_before)
             right == DrawdownMin(close, mid + 1, hi,
                                  Max2(max_before, MaxRange(close, lo, mid)))
         IN  IF RatLt(right, left) THEN right ELSE left

max_drawdown(close) ==
    IF Len(close) < 2 THEN RatNaN ELSE DrawdownMin(close, 2, Len(close), close[2])

\* round(x * 100, 2) of an exact quotient, in hundredths of a percent
RoundPct2(q) == IF q.nan THEN NaN ELSE Num(RoundHalfEven(10000 * q.n, q.d))

PositiveDays(dr) == Cardinality({i \in DOMAIN dr : dr[i] > 0})

\* Annualized volatility (assuming 252 trading days), in hundredths of a percent
AnnualVolatility(daily_returns, std) ==
    IF Len(daily_returns) > 1 THEN Num(MulDivRound(std.v, Sqrt252, ReturnScale))
    ELSE Num(0)

\* Sharpe ratio, in hundredths; the std of a single return is NaN, and NaN > 0
\* is False
SharpeRatio(mean, std) ==
    IF Gt(std, Num(0))
    THEN Num(RoundHalfEven(MulDivRound(mean, Sqrt252, std.v), 100))
    ELSE Num(0)

\* the returned dict; daily_returns.mean() of no return is NaN, and so is 0 / 0
ReturnMetrics(close_prices, daily_returns, std, total) ==
    [ cumulative_return_pct |->
          RoundPct2(Rat(close_prices[Len(close_prices)] - close_prices[1], close_prices[1])),
      annual_volatility_pct |-> AnnualVolatility(daily_returns, std),
      sharpe_ratio          |->
          IF daily_returns = << >> THEN Num(0)
          ELSE SharpeRatio(RoundHalfEven(total, Len(daily_returns)), std),
      max_drawdown_pct      |-> RoundPct2(max_drawdown(close_prices)),
      avg_daily_return_pct  |->
          IF daily_returns = << >> THEN NaN
          ELSE Num(RoundHalfEven(total * (100000 \div ReturnScale), Len(daily_returns))),
      positive_days_pct     |->
          IF daily_returns = << >> THEN NaN
          ELSE Num(RoundHalfEven(1000 * PositiveDays(daily_returns), Len(daily_returns))) ]

DailyMetrics(close_prices, daily_returns) ==
    ReturnMetrics(close_prices, daily_returns, Std(daily_returns), SumSeq(daily_returns))

calculate_returns(data) ==
    IF data = << >> THEN << >>
    ELSE DailyMetrics(data, pct_change(data))

\* ---------------------------------------------- calculate_technical_indicators
WindowMA20 == 20
WindowMA50 == 50
WindowMA200 == 200
WindowRSI == 14
WindowBB == 20

\* delta.where(delta > 0, 0): the NaN first delta becomes 0
Gains(delta) == [i \in DOMAIN delta |-> IF Gt(delta[i], Num(0)) THEN delta[i].v ELSE 0]

\* -delta.where(delta < 0, 0)
Losses(delta) == [i \in DOMAIN delta |-> IF Lt(delta[i], Num(0)) THEN -delta[i].v ELSE 0]

\* RSILast with the division by a zero average loss left undefined
RSILastMutant(close) ==
    LET delta == diff(close)
        gain  == RollingMeanLast(Gains(delta), WindowRSI)
        loss  == RollingMeanLast(Losses(delta), WindowRSI)
    IN  IF gain.nan \/ loss.nan THEN RatNaN
        ELSE IF loss.n = 0 THEN RatNaN
        ELSE Rat(100 * gain.n, gain.n + loss.n)

\* rs = gain / loss; rsi = 100 - 100 / (1 + rs), as an exact quotient:
\* x/0 is inf for x > 0 (rsi 100) and NaN for x = 0
RSILast(close) ==
    LET delta == diff(close)
        gain  == RollingMeanLast(Gains(delta), WindowRSI)
        loss  == RollingMeanLast(Losses(delta), WindowRSI)
    IN  IF gain.nan \/ loss.nan THEN RatNaN
        ELSE IF loss.n = 0 THEN (IF gain.n = 0 THEN RatNaN ELSE Rat(100, 1))
        ELSE Rat(100 * gain.n, gain.n + loss.n)

\* round(x, 2) of a price quotient (price units), in cents; 0 for NaN
RoundPrice(q) == IF q.nan THEN 0 ELSE RoundHalfEven(q.n, q.d * UnitsPerCent)

\* Signal interpretations and the returned dict; NaN maps to 0 (to 50 for rsi)
Indicators(current_close, current_ma20, current_ma50, current_ma200, current_rsi, current_bb_upper, current_bb_lower) ==
    [ current_price |-> RoundPrice(current_close),
      ma_20         |-> RoundPrice(current_ma20),
      ma_50         |-> RoundPrice(current_ma50),
      ma_200        |-> RoundPrice(current_ma200),
      rsi           |-> IF current_rsi.nan THEN 500
                        ELSE RoundHalfEven(10 * current_rsi.n, current_rsi.d),
      bb_upper      |-> RoundPrice(current_bb_upper),
      bb_lower      |-> RoundPrice(current_bb_lower),
      ma_signal     |->
          IF /\ RatLt(current_ma20, current_close)
             /\ RatLt(current_ma50, current_ma20)
             /\ RatLt(current_ma200, current_ma50)
          THEN "Bullish" ELSE "Bearish",
      rsi_signal    |->
          IF RatLt(Rat(70, 1), current_rsi) THEN "Overbought"
          ELSE IF RatLt(current_rsi, Rat(30, 1)) THEN "Oversold"
          ELSE "Neutral",
      bb_position   |->
          IF RatLt(current_bb_upper, current_close) THEN "Upper Band"
          ELSE IF RatLt(current_close, current_bb_lower) THEN "Lower Band"
          ELSE "Middle Range" ]

\* Bollinger Bands: bb_middle + k * bb_std, in price units
BollingerBand(close_prices, k) ==
    IF Len(close_prices) < WindowBB THEN RatNaN
    ELSE Rat(Mean(LastN(close_prices, WindowBB))
               + k * RollingStdLast(close_prices, WindowBB).v, 1)

calculate_technical_indicators(data) ==
    IF data = << >> THEN << >>
    ELSE Indicators(Rat(data[Len(data)], 1),
                    RollingMeanLast(data, WindowMA20),
                    RollingMeanLast(data, WindowMA50),
                    RollingMeanLast(data, WindowMA200),
                    RSILast(data),
                    BollingerBand(data, 2),
                    BollingerBand(data, -2))

\* ------------------------------------------------------------- info values
\* a value of the info dict: None, a number (InfoScale units to 1.0) or a
\* non-numeric value (a string of v characters, v > 0)
NoneVal == [k |-> "none", v |-> 0]

NumVal(x) == [k |-> "num", v |-> x]

StrVal(n) == [k |-> "str", v |-> n]

\* the default 'N/A' of get_basic_info
NA == StrVal(3)

\* Python truthiness: None, 0 and 0.0 are false
Truthy(x) == x.k # "none" /\ x.v # 0

\* dict.get(key): None for a missing key
GetNone(m, key) == Get(m, key, NoneVal)

\* round(value, 3) of an int or float
Round3(x) == NumVal((InfoScale \div 1000) * RoundHalfEven(x.v, InfoScale \div 1000))

\* ------------------------------------------------------------ get_basic_info
BasicInfoKeys ==
    << <<"name", "longName">>, <<"sector", "sector">>, <<"industry", "industry">>,
       <<"country", "country">>, <<"market_cap", "marketCap">>,
       <<"current_price", "currentPrice">>, <<"52_week_high", "fiftyTwoWeekHigh">>,
       <<"52_week_low", "fiftyTwoWeekLow">>, <<"dividend_yield", "dividendYield">>,
       <<"pe_ratio", "trailingPE">>, <<"pb_ratio", "priceToBook">> >>

get_basic_info(self) ==
    [ symbol |-> self.symbol,
      fields |-> [f \in {BasicInfoKeys[i][1] : i \in DOMAIN BasicInfoKeys} |->
                    LET i == CHOOSE j \in DOMAIN BasicInfoKeys : BasicInfoKeys[j][1] = f
                    IN  Get(self.info, BasicInfoKeys[i][2], NA)] ]

\* ------------------------------------------------------- analyze_fundamentals
metrics ==
    << <<"trailingPE", "pe_ratio">>, <<"forwardPE", "forward_pe">>,
       <<"priceToBook", "pb_ratio">>, <<"priceToSalesTrailing12Months", "ps_ratio">>,
       <<"enterpriseToRevenue", "ev_revenue">>, <<"enterpriseToEbitda", "ev_ebitda">>,
       <<"profitMargins", "profit_margin">>, <<"operatingMargins", "operating_margin">>,
       <<"returnOnEquity", "roe">>, <<"returnOnAssets", "roa">>,
       <<"debtToEquity", "debt_equity">>, <<"currentRatio", "current_ratio">>,
       <<"quickRatio", "quick_ratio">>, <<"totalRevenue", "revenue">>,
       <<"revenueGrowth", "revenue_growth">>, <<"earningsGrowth", "earnings_growth">>,
       <<"freeCashflow", "free_cash_flow">>, <<"operatingCashflow", "operating_cash_flow">> >>

\* the loop over metrics: absent and None values are skipped, numbers are
\* rounded to 3 decimals, anything else is passed through
ExtractMetrics(info) ==
    LET present == {i \in DOMAIN metrics : GetNone(info, metrics[i][1]).k # "none"}
    IN  [our_key \in {metrics[i][2] : i \in present} |->
            LET i     == CHOOSE j \in present : metrics[j][2] = our_key
                value == GetNone(info, metrics[i][1])
            IN  IF value.k = "num" THEN Round3(value) ELSE value]

\* f with key mapped to value
Put(f, key, value) ==
    [x \in DOMAIN f \cup {key} |-> IF x = key THEN value ELSE f[x]]

\* the result [raised, value]: raised when a comparison or a division meets a
\* non-numeric value (TypeError)
analyze_fundamentals(self) ==
    LET fundamentals == ExtractMetrics(self.info)
        market_cap   == GetNone(self.info, "marketCap")
    IN  IF "revenue" \in DOMAIN fundamentals /\ "marketCap" \in DOMAIN self.info
           /\ Truthy(market_cap)
        THEN IF fundamentals["revenue"].k # "num" THEN [raised |-> TRUE, value |-> << >>]
             ELSE IF fundamentals["revenue"].v > 0
             THEN IF market_cap.k # "num" THEN [raised |-> TRUE, value |-> << >>]
                  ELSE [raised |-> FALSE,
                        value  |-> Put(fundamentals, "market_cap_to_revenue",
                                     NumVal((InfoScale \div 100) *
                                         RoundHalfEven(100 * market_cap.v,
                                                       fundamentals["revenue"].v)))]
             ELSE [raised |-> FALSE, value |-> fundamentals]
        ELSE [raised |-> FALSE, value |-> fundamentals]

\* ---------------------------------------------------- generate_recommendation
\* MAScore with the Bearish signal misspelt, a Bearish falling through to 10
MAScoreMutant(technicals) ==
    IF Get(technicals, "ma_signal", "None") = "Bullish" THEN 15
    ELSE IF Get(technicals, "ma_signal", "None") = "bearish" THEN 5
    ELSE 10

\* 1. Price vs moving averages
MAScore(technicals) ==
    IF Get(technicals, "ma_signal", "None") = "Bullish" THEN 15
    ELSE IF Get(technicals, "ma_signal", "None") = "Bearish" THEN 5
    ELSE 10

\* 2. RSI (reported value, in tenths)
RSIScore(technicals) ==
    LET rsi == Get(technicals, "rsi", 500)
    IN  IF 300 <= rsi /\ rsi <= 700 THEN 10
        ELSE IF rsi < 300 THEN 8
        ELSE 4

\* 3. Bollinger Bands position
BBScore(technicals) ==
    LET bb_pos == Get(technicals, "bb_position", "None")
    IN  IF bb_pos = "Lower Band" THEN 10
        ELSE IF bb_pos = "Middle Range" THEN 7
        ELSE 4

\* 4. Trend strength (cumulative return, in hundredths of a percent)
TrendScore(returns) ==
    LET cumulative_return == Get(returns, "cumulative_return_pct", Num(0))
    IN  IF Gt(cumulative_return, Num(1000)) THEN 15
        ELSE IF Gt(cumulative_return, Num(0)) THEN 10
        ELSE IF Gt(cumulative_return, Num(-1000)) THEN 5
        ELSE 0

\* 1. Valuation: `if pe_ratio:` is false for a missing and for a zero P/E
ValuationScore(fundamentals) ==
    LET pe_ratio == GetNone(fundamentals, "pe_ratio")
    IN  IF Truthy(pe_ratio)
        THEN IF pe_ratio.v < 15 * InfoScale THEN 15
             ELSE IF pe_ratio.v < 25 * InfoScale THEN 10
             ELSE IF pe_ratio.v < 40 * InfoScale THEN 5
             ELSE 0
        ELSE 7

\* 2. Profitability
ProfitabilityScore(fundamentals) ==
    LET profit_margin == Get(fundamentals, "profit_margin", NumVal(0))
    IN  IF 10 * profit_margin.v > 2 * InfoScale THEN 10
        ELSE IF 10 * profit_margin.v > 1 * InfoScale THEN 7
        ELSE IF profit_margin.v > 0 THEN 4
        ELSE 0

\* 3. Growth
GrowthScore(fundamentals) ==
    LET revenue_growth == Get(fundamentals, "revenue_growth", NumVal(0))
    IN  IF 10 * revenue_growth.v > 2 * InfoScale THEN 10
        ELSE IF 10 * revenue_growth.v > 1 * InfoScale THEN 7
        ELSE IF revenue_growth.v > 0 THEN 4
        ELSE 0

\* HealthScore with the band of 10 points closed at 1
HealthScoreMutant(fundamentals) ==
    LET debt_equity == Get(fundamentals, "debt_equity", NumVal(1 * InfoScale))
    IN  IF 10 * debt_equity.v < 5 * InfoScale THEN 15
        ELSE IF debt_equity.v <= 1 * InfoScale THEN 10
        ELSE IF debt_equity.v < 2 * InfoScale THEN 5
        ELSE 0

\* 4. Financial health
HealthScore(fundamentals) ==
    LET debt_equity == Get(fundamentals, "debt_equity", NumVal(1 * InfoScale))
    IN  IF 10 * debt_equity.v < 5 * InfoScale THEN 15
        ELSE IF debt_equity.v < 1 * InfoScale THEN 10
        ELSE IF debt_equity.v < 2 * InfoScale THEN 5
        ELSE 0

\* Volatility risk (annual volatility, in hundredths of a percent)
VolatilityRisk(returns) ==
    LET volatility == Get(returns, "annual_volatility_pct", Num(0))
    IN  IF Lt(volatility, Num(2000)) THEN 0
        ELSE IF Lt(volatility, Num(3000)) THEN -10
        ELSE IF Lt(volatility, Num(4000)) THEN -15
        ELSE -25

\* Drawdown risk: abs() of the maximum drawdown; abs(NaN) is NaN
DrawdownRisk(returns) ==
    LET md           == Get(returns, "max_drawdown_pct", Num(0))
        abs_drawdown == IF md.nan THEN NaN ELSE Num(Abs(md.v))
    IN  IF Lt(abs_drawdown, Num(1000)) THEN 0
        ELSE IF Lt(abs_drawdown, Num(2000)) THEN -10
        ELSE IF Lt(abs_drawdown, Num(3000)) THEN -15
        ELSE -25

\* Decide with the band of 50 closed at the wrong end
DecideMutant(total_score) ==
    IF total_score >= 70 THEN
        [recommendation |-> "BUY", conviction |-> "STRONG",
         rationale |-> "Strong technical and fundamental signals with manageable risk"]
    ELSE IF total_score > 50 THEN
        [recommendation |-> "BUY", conviction |-> "MODERATE",
         rationale |-> "Favorable technical or fundamental signals with some risk concerns"]
    ELSE IF total_score >= 30 THEN
        [recommendation |-> "HOLD", conviction |-> "NEUTRAL",
         rationale |-> "Mixed signals with balanced risk-reward profile"]
    ELSE IF total_score >= 10 THEN
        [recommendation |-> "HOLD", conviction |-> "CAUTIOUS",
         rationale |-> "Weak signals with elevated risk considerations"]
    ELSE
        [recommendation |-> "SELL", conviction |-> "MODERATE",
         rationale |-> "Poor technical and fundamental signals with high risk"]

\* Determine recommendation
Decide(total_score) ==
    IF total_score >= 70 THEN
        [recommendation |-> "BUY", conviction |-> "STRONG",
         rationale |-> "Strong technical and fundamental signals with manageable risk"]
    ELSE IF total_score >= 50 THEN
        [recommendation |-> "BUY", conviction |-> "MODERATE",
         rationale |-> "Favorable technical or fundamental signals with some risk concerns"]
    ELSE IF total_score >= 30 THEN
        [recommendation |-> "HOLD", conviction |-> "NEUTRAL",
         rationale |-> "Mixed signals with balanced risk-reward profile"]
    ELSE IF total_score >= 10 THEN
        [recommendation |-> "HOLD", conviction |-> "CAUTIOUS",
         rationale |-> "Weak signals with elevated risk considerations"]
    ELSE
        [recommendation |-> "SELL", conviction |-> "MODERATE",
         rationale |-> "Poor technical and fundamental signals with high risk"]

\* PriceTargets with the SELL branch missing, a SELL falling through to HOLD
PriceTargetsMutant(recommendation, current_price) ==
    IF current_price > 0
    THEN IF recommendation = "BUY"
         THEN <<RoundHalfEven(current_price * 110, 100), RoundHalfEven(current_price * 90, 100)>>
         ELSE <<current_price, RoundHalfEven(current_price * 95, 100)>>
    ELSE <<0, 0>>

\* Calculate price targets (cents): <<price_target, stop_loss>>
PriceTargets(recommendation, current_price) ==
    IF current_price > 0
    THEN IF recommendation = "BUY"
         THEN <<RoundHalfEven(current_price * 110, 100), RoundHalfEven(current_price * 90, 100)>>
         ELSE IF recommendation = "SELL"
         THEN <<RoundHalfEven(current_price * 90, 100), RoundHalfEven(current_price * 110, 100)>>
         ELSE <<current_price, RoundHalfEven(current_price * 95, 100)>>
    ELSE <<0, 0>>

PositionSizing(recommendation) ==
    IF recommendation = "BUY" THEN "Moderate (3-5% of portfolio)"
    ELSE IF recommendation = "HOLD" THEN "Minimal (1-2%)"
    ELSE "Avoid or Reduce"

\* a comparison of a scored metric with a number raises TypeError when the
\* metric was passed through non-numeric; `if pe_ratio:` keeps an empty string
\* away from the comparison
ScoringRaises(fundamentals) ==
    \/ GetNone(fundamentals, "pe_ratio").k = "str" /\ Truthy(GetNone(fundamentals, "pe_ratio"))
    \/ \E key \in {"profit_margin", "revenue_growth", "debt_equity"} :
           GetNone(fundamentals, key).k = "str"

\* the returned dict, from the three scores and the current price
Recommendation(technical_score, fundamental_score, risk_score, decision, targets) ==
    [ recommendation    |-> decision.recommendation,
      conviction        |-> decision.conviction,
      total_score       |-> technical_score + fundamental_score + risk_score,
      technical_score   |-> technical_score,
      fundamental_score |-> fundamental_score,
      risk_score        |-> risk_score,
      rationale         |-> decision.rationale,
      price_target      |-> targets[1],
      stop_loss         |-> targets[2],
      time_horizon      |-> "3-6 months",
      position_sizing   |-> PositionSizing(decision.recommendation) ]

\* Total score calculation, the recommendation and the price targets
Conclude(technical_score, fundamental_score, risk_score, decision, current_price) ==
    Recommendation(technical_score, fundamental_score, risk_score, decision,
                   PriceTargets(decision.recommendation, current_price))

Score(technical_score, fundamental_score, risk_score, current_price) ==
    Conclude(technical_score, fundamental_score, risk_score,
             Decide(technical_score + fundamental_score + risk_score), current_price)

TechnicalScore(technicals, returns) ==
    MAScore(technicals) + RSIScore(technicals) + BBScore(technicals) + TrendScore(returns)

FundamentalScore(fundamentals) ==
    ValuationScore(fundamentals) + ProfitabilityScore(fundamentals)
        + GrowthScore(fundamentals) + HealthScore(fundamentals)

RiskScore(returns) == VolatilityRisk(returns) + DrawdownRisk(returns)

\* the scoring, from the three analyses; the result [raised, value]
Recommend(returns, technicals, fund) ==
    IF fund.raised \/ ScoringRaises(fund.value)
    THEN [raised |-> TRUE, value |-> << >>]
    ELSE [raised |-> FALSE,
          value  |-> Score(TechnicalScore(technicals, returns),
                           FundamentalScore(fund.value),
                           RiskScore(returns),
                           Get(technicals, "current_price", 0))]

\* Get analysis results (get_basic_info is called and its result is not used)
generate_recommendation(self) ==
    Recommend(calculate_returns(self.data),
              calculate_technical_indicators(self.data),
              analyze_fundamentals(self))

\* ------------------------------------------------------------------- inputs
\* a price of x dollars, in price units
Dollars(x) == x * 100 * UnitsPerCent

PriceSet == {Dollars(70), Dollars(78), Dollars(100), Dollars(103)}

\* every series of 0 .. MaxLen closes over PriceSet
ShortSeries == UNION {[1 .. n -> PriceSet] : n \in 0 .. MaxLen}

\* the closes that follow a warm-up prefix
TailPriceSet == {Dollars(78), Dollars(100), Dollars(103)}

TailSeries == UNION {[1 .. n -> TailPriceSet] : n \in 0 .. MaxLen}

\* warm-up prefixes of PadLen bars: flat at 100, rising to just below the
\* lowest price of PriceSet, falling to just above its highest
Pads ==
    { [i \in 1 .. PadLen |-> Dollars(100)],
      [i \in 1 .. PadLen |-> Dollars(70 - PadLen - 1 + i)],
      [i \in 1 .. PadLen |-> Dollars(103 + PadLen + 1 - i)] }

PaddedSeries == {pad \o s : pad \in Pads, s \in TailSeries}

\* the end-to-end series: E2ELen bars rising strictly from 100 to 150, either
\* evenly ("linear") or evenly to 130 with a last bar at 150 ("latejump"); variant k
\* lifts every even interior bar by 5 * k price units (less than one increment)
E2EClose(shape, k, i) ==
    LET zig == IF i % 2 = 0 /\ 1 < i /\ i < E2ELen - 1 THEN 5 * k ELSE 0
    IN  IF shape = "linear"
        THEN Dollars(100) + ((Dollars(50) * (i - 1)) \div (E2ELen - 1)) + zig
        ELSE IF i = E2ELen THEN Dollars(150)
        ELSE Dollars(100) + ((Dollars(30) * (i - 1)) \div (E2ELen - 2)) + zig

E2ESeries ==
    {[i \in 1 .. E2ELen |-> E2EClose(shape, k, i)] :
        shape \in {"linear", "latejump"}, k \in 0 .. E2EVariants}

\* series rising by 10 cents a bar from 100, one bar short of the 200-bar
\* window and exactly filling it
WindowSeries ==
    {[i \in 1 .. n |-> Dollars(100) + 10 * UnitsPerCent * (i - 1)] :
        n \in {WindowMA200 - 1, WindowMA200}}

\* a dict from a set of <<key, value>> pairs; a pair whose value is "absent" is
\* left out
Dict(pairs) ==
    LET kept == {q \in pairs : q[2] # NoneVal \/ q[3]}
    IN  [key \in {q[1] : q \in kept} |-> (CHOOSE q \in kept : q[1] = key)[2]]

\* <<key, value, stored>>: the key is left out of the dict unless value is not
\* None or stored is TRUE (an explicit None)
Absent(key) == <<key, NoneVal, FALSE>>

Has(key, value) == <<key, value, TRUE>>

\* x / 10000 as an info number
Frac(x) == NumVal(x * (InfoScale \div 10000))

PEValues == {NoneVal, Frac(0), Frac(120000), Frac(149996), Frac(300000), Frac(450000), StrVal(8)}
MarginValues == {NoneVal, Frac(2500), Frac(1500), Frac(1004), Frac(-500)}
GrowthValues == {NoneVal, Frac(1500), Frac(2504), Frac(500)}
DebtValues == {NoneVal, Frac(3000), Frac(7500), Frac(15000), Frac(25000)}

ScoredInfo(pe, pm, rg, de) ==
    Dict({ <<"trailingPE", pe, FALSE>>, <<"profitMargins", pm, FALSE>>,
           <<"revenueGrowth", rg, FALSE>>, <<"debtToEquity", de, FALSE>> })

InfoProduct ==
    {ScoredInfo(pe, pm, rg, de) :
        pe \in PEValues, pm \in MarginValues, rg \in GrowthValues, de \in DebtValues}

InfoEmpty == ScoredInfo(NoneVal, NoneVal, NoneVal, NoneVal)
InfoStrong == ScoredInfo(Frac(120000), Frac(2500), Frac(1500), Frac(3000))
InfoWeak == ScoredInfo(Frac(450000), Frac(-500), NoneVal, Frac(25000))
InfoStr == ScoredInfo(StrVal(8), Frac(2500), NoneVal, NoneVal)

\* dicts with the keys of the market-cap composite and of get_basic_info
InfoExtras ==
    { Dict({Has("longName", StrVal(10)), Has("totalRevenue", Frac(500000)),
            Has("marketCap", Frac(1234567)), Has("trailingPE", Frac(200000))}),
      Dict({Has("totalRevenue", Frac(0)), Has("marketCap", Frac(1234567))}),
      Dict({Has("totalRevenue", Frac(500000)), Has("marketCap", NoneVal)}),
      Dict({Has("totalRevenue", StrVal(3)), Has("marketCap", Frac(1234567))}),
      Dict({Has("totalRevenue", Frac(500000)), Has("marketCap", StrVal(3))}),
      Dict({Has("totalRevenue", Frac(500000))}),
      Dict({Has("trailingPE", StrVal(0)), Has("profitMargins", Frac(1500))}) }

\* what the provider answers to history(): a series, an empty frame or an error
HistoryOk(series) == [kind |-> IF series = << >> THEN "empty" ELSE "ok", data |-> series]

HistoryRaises == [kind |-> "raise", data |-> << >>]

\* what the provider answers to .info: a dict or an error
InfoOk(d) == [kind |-> "ok", info |-> d]

InfoRaises == [kind |-> "raise", info |-> << >>]

SYM_AAPL == <<"a", "a", "p", "l">>
SYM_0700 == <<"0", "7", "0", "0">>

Symbols == {SYM_AAPL, SYM_0700, Upper(SYM_AAPL)}

Markets == {STR_US, STR_HK, STR_CN, <<"h", "k">>, <<"c", "n">>, <<"H", "k">>, <<"u", "s">>}

Dates == {"2026-01-01 09:00:00", "2026-01-02 09:00:00"}

\* the constructor calls explored: <<symbol, market, history answer, info answer>>
Scenarios ==
    \* every short series, with a few info dicts
    ({SYM_AAPL} \X {STR_US}
        \X {HistoryOk(d) : d \in ShortSeries}
        \X {InfoOk(d) : d \in {InfoEmpty, InfoStrong, InfoWeak}})
    \cup
    \* every padded series
    ({SYM_AAPL} \X {STR_US}
        \X {HistoryOk(d) : d \in PaddedSeries}
        \X {InfoOk(InfoStrong)})
    \cup
    \* the fetch failures
    ({SYM_AAPL} \X {STR_US}
        \X {HistoryRaises, HistoryOk(<< >>), HistoryOk(<<Dollars(100), Dollars(102)>>)}
        \X {InfoRaises, InfoOk(InfoEmpty), InfoOk(InfoStrong), InfoOk(InfoStr)})
    \cup
    \* every info dict, with one series
    ({SYM_AAPL} \X {STR_US}
        \X {HistoryOk(<<Dollars(100), Dollars(102), Dollars(103)>>)}
        \X {InfoOk(d) : d \in InfoProduct \cup InfoExtras})
    \cup
    \* every symbol and market spelling
    (Symbols \X Markets
        \X {HistoryOk(<<Dollars(100), Dollars(102)>>)}
        \X {InfoOk(InfoStrong)})
    \cup
    \* the end-to-end rising series
    ({SYM_AAPL} \X {STR_US}
        \X {HistoryOk(d) : d \in E2ESeries}
        \X {InfoOk(InfoStrong)})
    \cup
    \* rising series around the longest window, scored with the strong info
    ({SYM_AAPL} \X {STR_US}
        \X {HistoryOk(d) : d \in WindowSeries}
        \X {InfoOk(InfoStrong)})

\* -------------------------------------------------------------------- state
VARIABLES
    pc,          \* "new" before the constructor has run, "ready" after
    symbol,      \* self.symbol
    market,      \* self.market
    yf_symbol,   \* self.yf_symbol, the symbol the provider is asked for
    data,        \* self.data: the Close column of the price frame
    info,        \* self.info
    args,        \* the constructor's arguments <<symbol, market>>
    provider,    \* what the provider answered: [history, info]
    fetches,     \* the number of provider calls made so far: [history, info]
    ret,         \* the last call and what it returned: [op, raised, value]
    first_rec    \* what the first generate_recommendation returned, and whether
                 \* generate_recommendation has been called again since

vars == <<pc, symbol, market, yf_symbol, data, info, args, provider, fetches, ret, first_rec>>

NoRet == [op |-> "none", raised |-> FALSE, value |-> << >>]

NoRec == [set |-> FALSE, repeated |-> FALSE, raised |-> FALSE, value |-> << >>]

Init ==
    /\ pc = "new"
    /\ symbol = << >>
    /\ market = << >>
    /\ yf_symbol = << >>
    /\ data = << >>
    /\ info = << >>
    /\ args = << << >>, << >> >>
    /\ provider = [history |-> "none", info |-> "none"]
    /\ fetches = [history |-> 0, info |-> 0]
    /\ ret = NoRet
    /\ first_rec = NoRec

\* the analyzer as the methods read it
Self == [symbol |-> symbol, data |-> data, info |-> info]

\* Format symbol for yfinance based on market: the test is on the argument as
\* given, not on the upper-cased self.market
FormatSymbol(symbol_arg, market_arg) ==
    IF market_arg = STR_HK THEN symbol_arg \o SUFFIX_HK
    ELSE IF market_arg = STR_CN THEN symbol_arg \o SUFFIX_SS
    ELSE symbol_arg

\* _fetch_data: an error and an empty frame both leave an empty frame
FetchData(answer) == IF answer.kind = "ok" THEN answer.data ELSE << >>

\* _fetch_info: an error leaves {}
FetchInfo(answer) == IF answer.kind = "ok" THEN answer.info ELSE << >>

\* StockAnalyzer(symbol, market)
Construct ==
    /\ pc = "new"
    /\ \E sc \in Scenarios :
        /\ args' = <<sc[1], sc[2]>>
        /\ symbol' = Upper(sc[1])
        /\ market' = Upper(sc[2])
        /\ yf_symbol' = FormatSymbol(sc[1], sc[2])
        /\ data' = FetchData(sc[3])
        /\ info' = FetchInfo(sc[4])
        /\ provider' = [history |-> sc[3].kind, info |-> sc[4].kind]
    /\ fetches' = [history |-> fetches.history + 1, info |-> fetches.info + 1]
    /\ pc' = "ready"
    /\ UNCHANGED <<ret, first_rec>>

Returns(op, result) == [op |-> op, raised |-> result.raised, value |-> result.value]

Ok(value) == [raised |-> FALSE, value |-> value]

\* Frozen with the first bar dropped from self.data in place
FrozenMutant ==
    /\ data' = IF data = << >> THEN data ELSE Tail(data)
    /\ UNCHANGED <<pc, symbol, market, yf_symbol, info, args, provider, fetches>>

Frozen == UNCHANGED <<pc, symbol, market, yf_symbol, data, info, args, provider, fetches>>

GetBasicInfo ==
    /\ pc = "ready"
    /\ ret' = Returns("get_basic_info", Ok(get_basic_info(Self)))
    /\ UNCHANGED first_rec
    /\ Frozen

CalculateReturns ==
    /\ pc = "ready"
    /\ ret' = Returns("calculate_returns", Ok(calculate_returns(data)))
    /\ UNCHANGED first_rec
    /\ Frozen

CalculateTechnicalIndicators ==
    /\ pc = "ready"
    /\ ret' = Returns("calculate_technical_indicators",
                      Ok(calculate_technical_indicators(data)))
    /\ UNCHANGED first_rec
    /\ Frozen

AnalyzeFundamentals ==
    /\ pc = "ready"
    /\ ret' = Returns("analyze_fundamentals", analyze_fundamentals(Self))
    /\ UNCHANGED first_rec
    /\ Frozen

Remember(rec) ==
    IF first_rec.set THEN [first_rec EXCEPT !.repeated = TRUE]
    ELSE [set |-> TRUE, repeated |-> FALSE, raised |-> rec.raised, value |-> rec.value]

AfterRecommendation(rec) ==
    /\ ret' = Returns("generate_recommendation", rec)
    /\ first_rec' = Remember(rec)

GenerateRecommendation ==
    /\ pc = "ready"
    /\ AfterRecommendation(generate_recommendation(Self))
    /\ Frozen

\* generate_report: the five analyses in the order of the dict literal, the time
\* of the call, the period and the number of bars.  rec_called tells whether
\* generate_recommendation was reached
Report(self, now, fund, rec) ==
    IF fund.raised THEN [raised |-> TRUE, value |-> << >>, rec_called |-> FALSE]
    ELSE IF rec.raised THEN [raised |-> TRUE, value |-> << >>, rec_called |-> TRUE]
    ELSE [raised |-> FALSE, rec_called |-> TRUE,
          value |-> [ basic_info             |-> get_basic_info(self),
                      returns_analysis       |-> calculate_returns(self.data),
                      technical_analysis     |-> calculate_technical_indicators(self.data),
                      fundamental_analysis   |-> fund.value,
                      trading_recommendation |-> rec.value,
                      analysis_date          |-> now,
                      data_points            |-> Len(self.data) ]]

generate_report(self, now) ==
    Report(self, now, analyze_fundamentals(self), generate_recommendation(self))

\* the recommendation a report's call of generate_recommendation returned
ReportRec(report) ==
    IF report.raised THEN [raised |-> TRUE, value |-> << >>]
    ELSE Ok(report.value.trading_recommendation)

AfterReport(report) ==
    /\ ret' = Returns("generate_report", report)
    /\ first_rec' = IF report.rec_called THEN Remember(ReportRec(report)) ELSE first_rec

GenerateReport ==
    /\ pc = "ready"
    /\ \E now \in Dates : AfterReport(generate_report(Self, now))
    /\ Frozen

Next ==
    \/ Construct
    \/ GetBasicInfo
    \/ CalculateReturns
    \/ CalculateTechnicalIndicators
    \/ AnalyzeFundamentals
    \/ GenerateRecommendation
    \/ GenerateReport

Spec == Init /\ [][Next]_vars

\* =================================================================== claims
\* C1: for every price series (the empty one included) and every fundamentals
\* mapping, generate_recommendation returns technical_score in [0, 50],
\* fundamental_score in [0, 50], risk_score in [-50, 0] and total_score equal to
\* their sum, in [-50, 100].
C1_ScoresInRange ==
    ret.op = "generate_recommendation" =>
        /\ ~ret.raised
        /\ ret.value.technical_score \in 0 .. 50
        /\ ret.value.fundamental_score \in 0 .. 50
        /\ ret.value.risk_score \in -50 .. 0
        /\ ret.value.total_score =
               ret.value.technical_score + ret.value.fundamental_score
                   + ret.value.risk_score
        /\ ret.value.total_score \in -50 .. 100

\* C2: the (recommendation, conviction) pair of a returned recommendation is the
\* step function of its total_score: >= 70 BUY/STRONG, >= 50 BUY/MODERATE,
\* >= 30 HOLD/NEUTRAL, >= 10 HOLD/CAUTIOUS, otherwise SELL/MODERATE; and
\* position_sizing is fixed per action.
C2_StepFunction ==
    (ret.op = "generate_recommendation" /\ ~ret.raised) =>
        LET total  == ret.value.total_score
            action == <<ret.value.recommendation, ret.value.conviction>>
        IN  /\ total >= 70 => action = <<"BUY", "STRONG">>
            /\ (total >= 50 /\ total < 70) => action = <<"BUY", "MODERATE">>
            /\ (total >= 30 /\ total < 50) => action = <<"HOLD", "NEUTRAL">>
            /\ (total >= 10 /\ total < 30) => action = <<"HOLD", "CAUTIOUS">>
            /\ total < 10 => action = <<"SELL", "MODERATE">>
            /\ ret.value.recommendation = "BUY" =>
                   ret.value.position_sizing = "Moderate (3-5% of portfolio)"
            /\ ret.value.recommendation = "HOLD" =>
                   ret.value.position_sizing = "Minimal (1-2%)"
            /\ ret.value.recommendation = "SELL" =>
                   ret.value.position_sizing = "Avoid or Reduce"

\* a recommendation returned with a total score on the boundary of a band
C2_Witness ==
    /\ ret.op = "generate_recommendation"
    /\ ~ret.raised
    /\ ret.value.total_score \in {70, 50, 30, 10}

\* C3 as stated: with an empty fundamentals mapping generate_recommendation
\* does not raise and fundamental_score is exactly 17 (7 + 0 + 0 + 10).
C3_EmptyFundamentalsScore17 ==
    (ret.op = "generate_recommendation" /\ analyze_fundamentals(Self) = Ok(<< >>)) =>
        /\ ~ret.raised
        /\ ret.value.fundamental_score = 17

\* C3 amended: with an empty fundamentals mapping generate_recommendation does
\* not raise and fundamental_score is exactly 12: 7 for valuation, 0 for
\* profitability, 0 for growth and 5 for financial health (the default
\* debt/equity of 1 is not < 1, and is < 2).
C3_EmptyFundamentalsScore12 ==
    (ret.op = "generate_recommendation" /\ analyze_fundamentals(Self) = Ok(<< >>)) =>
        /\ ~ret.raised
        /\ ret.value.fundamental_score = 12
        /\ ret.value.total_score =
               ret.value.technical_score + 7 + 0 + 0 + 5 + ret.value.risk_score

\* a recommendation for a fetched price series and an empty fundamentals mapping
C3_Witness ==
    /\ ret.op = "generate_recommendation"
    /\ ~ret.raised
    /\ data # << >>
    /\ analyze_fundamentals(Self) = Ok(<< >>)

\* C4: if the price fetch fails or returns no data (and likewise if the info
\* fetch raises), construction does not abort, calculate_returns and
\* calculate_technical_indicators return empty mappings, and
\* generate_recommendation and generate_report complete without raising, with
\* price_target = 0 and stop_loss = 0 in the recommendation.
C4_FetchFailureCompletes ==
    (provider.history \in {"raise", "empty"} \/ provider.info = "raise") =>
        /\ pc = "ready"
        /\ provider.history \in {"raise", "empty"} =>
            /\ ret.op \in {"calculate_returns", "calculate_technical_indicators"} =>
                   ret.value = << >>
            /\ ret.op \in {"generate_recommendation", "generate_report"} => ~ret.raised
            /\ ret.op = "generate_recommendation" =>
                   ret.value.price_target = 0 /\ ret.value.stop_loss = 0
            /\ ret.op = "generate_report" =>
                /\ ret.value.trading_recommendation.price_target = 0
                /\ ret.value.trading_recommendation.stop_loss = 0
        /\ provider.info = "raise" =>
            /\ info = << >>
            /\ ret.op \in {"generate_recommendation", "generate_report"} => ~ret.raised

\* C5: the rsi reported by calculate_technical_indicators (in tenths) is in
\* [0, 100], and it is 100 whenever the series has at least 14 bars and no
\* price delta of the trailing 14-period window is negative, all deltas being
\* zero included.
C5_RSISaturates ==
    (ret.op = "calculate_technical_indicators" /\ data # << >>) =>
        /\ ret.value.rsi \in 0 .. 1000
        /\ ( /\ Len(data) >= WindowRSI
             /\ \A i \in (Len(data) - WindowRSI + 1) .. Len(data) :
                    i > 1 => data[i] >= data[i - 1] )
           => ret.value.rsi = 1000

\* C6: calculate_returns returns the empty mapping for every series of fewer
\* than 2 bars, and a populated mapping only for a series of at least 2 bars.
C6_ReturnsNeedTwoBars ==
    ret.op = "calculate_returns" => (ret.value = << >> <=> Len(data) < 2)

\* the targets of recommendation rec follow from its action and the price p
C7_TargetsFollow(rec, p) ==
    IF p > 0
    THEN /\ rec.recommendation = "BUY" =>
                /\ Abs(100 * rec.price_target - 110 * p) <= 50
                /\ Abs(100 * rec.stop_loss - 90 * p) <= 50
         /\ rec.recommendation = "SELL" =>
                /\ Abs(100 * rec.price_target - 90 * p) <= 50
                /\ Abs(100 * rec.stop_loss - 110 * p) <= 50
         /\ rec.recommendation = "HOLD" =>
                /\ rec.price_target = p
                /\ Abs(100 * rec.stop_loss - 95 * p) <= 50
    ELSE rec.price_target = 0 /\ rec.stop_loss = 0

\* C7: in a returned recommendation, when the technical current_price p (in
\* cents) is > 0, BUY gives target 1.10 p and stop 0.90 p, SELL gives target
\* 0.90 p and stop 1.10 p, HOLD gives target p and stop 0.95 p, each rounded to
\* the cent; when the technicals are empty or p is not > 0, both are 0.
C7_PriceTargets ==
    /\ (ret.op = "generate_recommendation" /\ ~ret.raised) =>
           C7_TargetsFollow(ret.value,
                            Get(calculate_technical_indicators(data), "current_price", 0))
    /\ (ret.op = "generate_report" /\ ~ret.raised) =>
           C7_TargetsFollow(ret.value.trading_recommendation,
                            Get(ret.value.technical_analysis, "current_price", 0))

\* a SELL on a priced series, the target below the price and the stop above it
C7_Witness ==
    /\ ret.op = "generate_report"
    /\ ~ret.raised
    /\ ret.value.technical_analysis # << >>
    /\ ret.value.technical_analysis.current_price > 0
    /\ ret.value.trading_recommendation.recommendation = "SELL"
    /\ ret.value.trading_recommendation.price_target
           < ret.value.technical_analysis.current_price
    /\ ret.value.trading_recommendation.stop_loss
           > ret.value.technical_analysis.current_price

\* the end-to-end case: a series of E2ELen bars rising strictly from 100 to 150
\* and the fundamentals {pe_ratio 12, profit_margin 0.25, revenue_growth 0.15,
\* debt_equity 0.3}
C8_Case ==
    /\ Len(data) = E2ELen
    /\ data[1] = Dollars(100)
    /\ data[Len(data)] = Dollars(150)
    /\ \A i \in 2 .. Len(data) : data[i] > data[i - 1]
    /\ analyze_fundamentals(Self) =
           Ok([pe_ratio |-> Frac(120000), profit_margin |-> Frac(2500),
               revenue_growth |-> Frac(1500), debt_equity |-> Frac(3000)])
    /\ ret.op = "generate_report"
    /\ ~ret.raised

\* the points of a reported Bollinger position
C8_BBPoints(bb_position) ==
    IF bb_position = "Lower Band" THEN 10
    ELSE IF bb_position = "Middle Range" THEN 7
    ELSE 4

\* C8 as stated: in the end-to-end case ma_signal = Bullish, technical_score =
\* 15 (MA) + 10 (RSI) + the Bollinger-position points + 15 (trend),
\* fundamental_score = 15 + 10 + 7 + 15 = 47 and the action is BUY.
C8_EndToEndRSI10 ==
    C8_Case =>
        /\ ret.value.technical_analysis.ma_signal = "Bullish"
        /\ ret.value.trading_recommendation.technical_score =
               15 + 10 + C8_BBPoints(ret.value.technical_analysis.bb_position) + 15
        /\ ret.value.trading_recommendation.fundamental_score = 15 + 10 + 7 + 15
        /\ ret.value.trading_recommendation.recommendation = "BUY"

\* C8 amended: in the end-to-end case ma_signal = Bullish, the rsi is 100 and
\* earns the 4 points of rsi > 70, technical_score = 15 (MA) + 4 (RSI) + the
\* Bollinger-position points + 15 (trend), fundamental_score = 47 and the
\* action is BUY.
C8_EndToEndRSI4 ==
    C8_Case =>
        /\ ret.value.technical_analysis.ma_signal = "Bullish"
        /\ ret.value.technical_analysis.rsi = 1000
        /\ ret.value.trading_recommendation.technical_score =
               15 + 4 + C8_BBPoints(ret.value.technical_analysis.bb_position) + 15
        /\ ret.value.trading_recommendation.fundamental_score = 15 + 10 + 7 + 15
        /\ ret.value.trading_recommendation.recommendation = "BUY"

\* a report of the end-to-end case whose last close is above the upper band
C8_Witness ==
    /\ C8_Case
    /\ ret.value.technical_analysis.bb_position = "Upper Band"
    /\ ret.value.data_points = E2ELen

\* C9: after construction no call of get_basic_info, calculate_returns,
\* calculate_technical_indicators, analyze_fundamentals, generate_recommendation
\* or generate_report changes the price data or the info or fetches again, and
\* every generate_recommendation returns what the first one returned.
C9_Idempotent ==
    [][ pc = "ready" =>
          /\ data' = data
          /\ info' = info
          /\ fetches' = fetches
          /\ (ret'.op = "generate_recommendation" /\ first_rec.set) =>
                 /\ ret'.raised = first_rec.raised
                 /\ ret'.value = first_rec.value
          /\ (ret'.op = "generate_report" /\ first_rec.set /\ ~ret'.raised) =>
                 /\ ~first_rec.raised
                 /\ ret'.value.trading_recommendation = first_rec.value ]_vars

\* generate_recommendation has returned a second time, for a fetched series,
\* after one fetch of each kind
C9_Witness ==
    /\ ret.op = "generate_recommendation"
    /\ ~ret.raised
    /\ first_rec.repeated
    /\ ret.value = first_rec.value
    /\ data # << >>
    /\ fetches = [history |-> 1, info |-> 1]

\* C10: the provider symbol is determined by the recorded market: the input
\* symbol with ".HK" appended when the market is HK, with ".SS" appended when it
\* is CN, and the input symbol otherwise.
C10_SuffixByMarket ==
    pc = "ready" =>
        yf_symbol = IF market = STR_HK THEN args[1] \o SUFFIX_HK
                    ELSE IF market = STR_CN THEN args[1] \o SUFFIX_SS
                    ELSE args[1]

\* C11: the scorer is total: for every mapping analyze_fundamentals can produce
\* from an info mapping, allow-listed metrics with non-numeric values included,
\* analyze_fundamentals and generate_recommendation complete without raising
\* and generate_recommendation returns a Recommendation.
C11_ScorerTotal ==
    /\ ret.op = "analyze_fundamentals" => ~ret.raised
    /\ ret.op = "generate_recommendation" =>
           /\ ~ret.raised
           /\ ret.value.recommendation \in {"BUY", "HOLD", "SELL"}

\* the RSI points of a reported rsi (tenths), 50 when the technicals are empty
C12_RSIPoints(technicals) ==
    IF technicals = << >> THEN 10
    ELSE IF technicals.rsi >= 300 /\ technicals.rsi <= 700 THEN 10
    ELSE IF technicals.rsi < 300 THEN 8
    ELSE 4

\* the trend points of a reported cumulative return (hundredths of a percent)
C12_TrendPoints(returns) ==
    IF returns = << >> THEN 5
    ELSE IF returns.cumulative_return_pct.v > 1000 THEN 15
    ELSE IF returns.cumulative_return_pct.v > 0 THEN 10
    ELSE IF returns.cumulative_return_pct.v > -1000 THEN 5
    ELSE 0

\* what the MA rubric contributed to the technical_score of a report
C12_MAPoints(report) ==
    report.trading_recommendation.technical_score
        - C12_RSIPoints(report.technical_analysis)
        - C8_BBPoints(Get(report.technical_analysis, "bb_position", "None"))
        - C12_TrendPoints(report.returns_analysis)

\* C12 as stated: in every execution the ma_signal the scorer consults is
\* Bullish or Bearish, and the MA rubric contributes 15 or 5, never 10.
C12_MANever10 ==
    (ret.op = "generate_report" /\ ~ret.raised) =>
        /\ Get(ret.value.technical_analysis, "ma_signal", "None") \in {"Bullish", "Bearish"}
        /\ C12_MAPoints(ret.value) \in {15, 5}

\* C12 amended: whenever the price series is not empty the ma_signal the scorer
\* consults is Bullish (15 points) or Bearish (5 points); when the price series
\* is empty the technicals are empty, no ma_signal exists and the third branch
\* of the MA rubric contributes 10.
C12_MA10OnlyWithoutData ==
    (ret.op = "generate_report" /\ ~ret.raised) =>
        IF data # << >>
        THEN /\ ret.value.technical_analysis.ma_signal \in {"Bullish", "Bearish"}
             /\ ret.value.technical_analysis.ma_signal = "Bullish"
                    => C12_MAPoints(ret.value) = 15
             /\ ret.value.technical_analysis.ma_signal = "Bearish"
                    => C12_MAPoints(ret.value) = 5
        ELSE /\ ret.value.technical_analysis = << >>
             /\ C12_MAPoints(ret.value) = 10

\* a report for an analyzer without price data, the MA rubric contributing 10
C12_Witness ==
    /\ ret.op = "generate_report"
    /\ ~ret.raised
    /\ data = << >>
    /\ ret.value.data_points = 0
    /\ ret.value.trading_recommendation.technical_score = 10 + 10 + 4 + 5

\* what the valuation rubric contributed to the fundamental_score of a report
C13_ValuationPoints(report) ==
    report.trading_recommendation.fundamental_score
        - ProfitabilityScore(report.fundamental_analysis)
        - GrowthScore(report.fundamental_analysis)
        - HealthScore(report.fundamental_analysis)

\* C13: the valuation rubric awards the 7 points of 'no data' only when
\* pe_ratio is absent, and scores every present numeric pe_ratio, 0 included,
\* by the table < 15 gives 15, < 25 gives 10, < 40 gives 5, else 0.
C13_ZeroPEIsScored ==
    (ret.op = "generate_report" /\ ~ret.raised) =>
        LET pe_ratio == GetNone(ret.value.fundamental_analysis, "pe_ratio")
        IN  /\ "pe_ratio" \notin DOMAIN ret.value.fundamental_analysis =>
                   C13_ValuationPoints(ret.value) = 7
            /\ pe_ratio.k = "num" =>
                   C13_ValuationPoints(ret.value) =
                       IF pe_ratio.v < 15 * InfoScale THEN 15
                       ELSE IF pe_ratio.v < 25 * InfoScale THEN 10
                       ELSE IF pe_ratio.v < 40 * InfoScale THEN 5
                       ELSE 0

\* C14: for every non-empty price series of fewer than 200 bars
\* calculate_technical_indicators reports ma_signal = Bearish whatever the
\* prices, and the MA rubric contributes exactly 5 points; Bullish is reported
\* only for a series of at least 200 bars.
C14_BearishBelow200Bars ==
    /\ (ret.op = "calculate_technical_indicators" /\ data # << >>) =>
           /\ Len(data) < WindowMA200 => ret.value.ma_signal = "Bearish"
           /\ ret.value.ma_signal = "Bullish" => Len(data) >= WindowMA200
    /\ (ret.op = "generate_report" /\ ~ret.raised /\ data # << >>) =>
           /\ Len(data) < WindowMA200 =>
                  /\ ret.value.technical_analysis.ma_signal = "Bearish"
                  /\ C12_MAPoints(ret.value) = 5
           /\ ret.value.technical_analysis.ma_signal = "Bullish" =>
                  Len(data) >= WindowMA200

\* a report for 199 rising bars: the close is above the 20-bar average, which
\* is above the 50-bar average, the 200-bar average is undefined (reported 0),
\* and the signal is Bearish
C14_Witness ==
    /\ ret.op = "generate_report"
    /\ ~ret.raised
    /\ Len(data) = WindowMA200 - 1
    /\ ret.value.technical_analysis.current_price > ret.value.technical_analysis.ma_20
    /\ ret.value.technical_analysis.ma_20 > ret.value.technical_analysis.ma_50
    /\ ret.value.technical_analysis.ma_50 > 0
    /\ ret.value.technical_analysis.ma_200 = 0
    /\ ret.value.technical_analysis.ma_signal = "Bearish"

\* C15: for every non-empty price series in which no close is lower than an
\* earlier close, a single-bar series included, the drawdown sub-penalty is 0:
\* risk_score equals the volatility sub-penalty alone.
C15_NoDrawdownNoPenalty ==
    ( /\ ret.op = "generate_report"
      /\ ~ret.raised
      /\ data # << >>
      /\ \A i \in 2 .. Len(data) : data[i] >= data[i - 1] )
    => ret.value.trading_recommendation.risk_score
           = VolatilityRisk(ret.value.returns_analysis)

=============================================================================
